---- MODULE Spec2Model ----
(***************************************************************************)
(* Model of inefice-core (src/index.js): a table of root objects watched   *)
(* through object-observer, a registry of the clients linked to each root  *)
(* key, and the handler that turns every change record into one protocol   *)
(* message and sends it to the clients linked to the record's root key.    *)
(*                                                                         *)
(* Spec: the operations with a transport whose send returns normally.      *)
(* SpecAnyTransport: Spec plus operations during which transport.send      *)
(* throws for a client or re-enters the engine (unlink, disconnect).       *)
(* SpecAnyRecord: the observer's message building on any change record.    *)
(***************************************************************************)
EXTENDS Integers, Sequences, FiniteSets, TLC

(* ------------------------------ bounds -------------------------------- *)

\* longest array a root key may hold
MaxLen == 2
\* how many operations (calls of the public surface, table mutations and
\* disconnects) a run makes
MaxOps == 5

(* --------------------------- input domains ---------------------------- *)

Keys == {"foo", "bar"}
ClientNames == {"client1", "client2"}
\* the client handles the transport hands out: buildFakeClient returns { name }
Clients == [name : ClientNames]

(* ------------------------------ values -------------------------------- *)

\* JS values held by the table; Absent is "no own property"
Absent == [kind |-> "absent", elems |-> <<>>]
Undefined == [kind |-> "undefined", elems |-> <<>>]
Str(s) == [kind |-> "string", elems |-> <<s>>]
Arr(s) == [kind |-> "array", elems |-> s]

RECURSIVE SeqsUpTo(_, _)
SeqsUpTo(S, n) ==
    IF n = 0 THEN {<<>>}
    ELSE LET shorter == SeqsUpTo(S, n - 1)
         IN  shorter \cup {Append(s, x) : s \in shorter, x \in S}

\* what the owning process assigns to a root key, and the items it splices
\* into an array
RootValues == {Undefined, Arr(<<"b", "a">>)}
SpliceItems == SeqsUpTo({"a"}, MaxLen)
\* where it splices: at the front of the array
SpliceStarts == {0}

\* a test for a missing own property instead of typeof: an explicit undefined
\* passes for a value
TypeofUndefinedOwnProperty(v) == v.kind = "absent"

\* typeof v === 'undefined'
TypeofUndefined(v) == v.kind \in {"absent", "undefined"}

\* data[key] as the proxy's get trap answers it
Get(d, key) == IF d[key] = Absent THEN Undefined ELSE d[key]

\* sejr.describe with the clientType of the source: anything that is not a
\* boolean, number, string or object is described as type 'undefined'
serialize(o) ==
    IF o.kind \in {"string", "array"}
    THEN [sejr |-> o.kind, elems |-> o.elems]
    ELSE [sejr |-> "undefined", elems |-> <<>>]

\* String(handle): the property name a client handle turns into when it is
\* used as a key of MapOfLists.map
PropertyKey(client) == "[object Object]"

\* transport.id(client)
TransportId(client) == client.name

(* ----------------------------- MapOfLists ----------------------------- *)

EmptyMap == [x \in {} |-> <<>>]

MapHas(m, key) == key \in DOMAIN m

\* with(key): the map after the call (an absent entry is created empty)
MapWith(m, key) == IF MapHas(m, key) THEN m ELSE m @@ (key :> <<>>)

\* the list with(key) returns
ListOf(m, key) == IF MapHas(m, key) THEN m[key] ELSE <<>>

\* removeAll emptying the whole map instead of deleting the one key
removeAllKeys(m, key) == EmptyMap

removeAll(m, key) == [x \in DOMAIN m \ {key} |-> m[x]]

set(m, key, value) ==
    IF Len(value) = 0 THEN removeAll(m, key)
    ELSE [x \in DOMAIN m \cup {key} |-> IF x = key THEN value ELSE m[x]]

\* with(key).push(e)
MapPush(m, key, e) ==
    [x \in DOMAIN m \cup {key} |-> IF x = key THEN Append(ListOf(m, key), e) ELSE m[x]]

\* the filter replaced by splice(indexOf(e), 1): only the first occurrence
\* of e is taken out
WithoutOnce(list, e) ==
    IF \E i \in 1..Len(list) : list[i] = e
    THEN LET first == CHOOSE i \in 1..Len(list) :
                          list[i] = e /\ \A j \in 1..(i - 1) : list[j] # e
         IN  SubSeq(list, 1, first - 1) \o SubSeq(list, first + 1, Len(list))
    ELSE list

Without(list, e) == SelectSeq(list, LAMBDA x : x # e)

Count(list, e) == Len(SelectSeq(list, LAMBDA x : x = e))

(* --------------------------- change records --------------------------- *)

\* one change record of object-observer, with the fields the observer reads
\* (oldValue is never read); path[1] is the root key (path[0] in
\* the source, sequences here start at 1) and the other segments are array
\* indices, counted from 0 as in the source
Change(type, path, value) ==
    [value |-> value, type |-> type, path |-> path]

\* array[i] for a 0-based index; undefined when out of range
Index(v, i) ==
    IF v.kind = "array" /\ i \in 0..(Len(v.elems) - 1)
    THEN Str(v.elems[i + 1]) ELSE Undefined

RECURSIVE Descend(_, _)
Descend(cursor, segments) ==
    IF segments = <<>> THEN cursor
    ELSE Descend(Index(cursor, Head(segments)), Tail(segments))

\* the guard "typeof segment !== undefined" is always true, so every segment
\* is followed
withPath(d, path) == Descend(Get(d, Head(path)), Tail(path))

\* updateFromPath taking the value from the change record instead of reading
\* the table
updateFromPathRecordValue(c, d) ==
    [op |-> "update", key |-> Head(c.path), path |-> Tail(c.path),
     value |-> serialize(c.value)]

updateFromPath(c, d) ==
    [op |-> "update", key |-> Head(c.path), path |-> Tail(c.path),
     value |-> serialize(withPath(d, c.path))]

\* insertStyleUpdate without the slice: the root key stays in the path
insertStyleUpdateWholePath(op, c) ==
    IF ~TypeofUndefined(c.value)
    THEN [op |-> op, key |-> Head(c.path), path |-> c.path,
          value |-> serialize(c.value)]
    ELSE [op |-> op, key |-> Head(c.path), path |-> c.path]

\* insertStyleUpdate without the typeof test: the value field is always set
insertStyleUpdateAlwaysValue(op, c) ==
    [op |-> op, key |-> Head(c.path), path |-> Tail(c.path),
     value |-> serialize(c.value)]

insertStyleUpdate(op, c) ==
    IF ~TypeofUndefined(c.value)
    THEN [op |-> op, key |-> Head(c.path), path |-> Tail(c.path),
          value |-> serialize(c.value)]
    ELSE [op |-> op, key |-> Head(c.path), path |-> Tail(c.path)]

\* changeTypes[change.type].buildMessage(change, data)
buildMessage(c, d) ==
    IF c.type \in {"shuffle", "reverse"} THEN updateFromPath(c, d)
    ELSE insertStyleUpdate(c.type, c)

\* the test of the observer without the path length: every delete record
IsRootDeletionAnyPath(c) == c.type = "delete"

IsRootDeletion(c) == c.type = "delete" /\ Len(c.path) = 1

\* the message the observer builds for one change
MessageFor(c, d) ==
    IF IsRootDeletion(c) THEN [op |-> "finalize", key |-> Head(c.path)]
    ELSE buildMessage(c, d)

(* -------------------------- SubscriberState --------------------------- *)

\* the sends of transport.send, in call order
Send(client, message) == [client |-> client, message |-> message]

\* the list without the first occurrence of e only
RECURSIVE WithoutFirst(_, _)
WithoutFirst(list, e) ==
    IF list = <<>> THEN <<>>
    ELSE IF Head(list) = e THEN Tail(list)
    ELSE <<Head(list)>> \o WithoutFirst(Tail(list), e)

\* unlinkSilently with splice(indexOf(client), 1) in place of the filter
unlinkSilentlyFirstOnly(k2c, client, key) ==
    set(MapWith(k2c, key), key, WithoutFirst(ListOf(k2c, key), client))

\* unlinkSilently dropping the key's whole list instead of filtering it
unlinkSilentlyWholeKey(k2c, client, key) == removeAll(MapWith(k2c, key), key)

\* unlinkSilently: the new keyToSubscribedClients
unlinkSilently(k2c, client, key) ==
    set(MapWith(k2c, key), key, Without(ListOf(k2c, key), client))

\* SubscriberState.link sending the init through the key's subscriber list
\* instead of to the linking client
linkBroadcast(k2c, c2k, d, client, key) ==
    [k2c |-> MapPush(k2c, key, client),
     c2k |-> MapPush(c2k, TransportId(client), key),
     sent |-> [i \in 1..Len(MapPush(k2c, key, client)[key]) |->
                  Send(MapPush(k2c, key, client)[key][i],
                       [op |-> "init", key |-> key,
                        value |-> serialize(Get(d, key))])]]

\* SubscriberState.link: both maps and the send it makes
link(k2c, c2k, d, client, key) ==
    [k2c |-> MapPush(k2c, key, client),
     c2k |-> MapPush(c2k, TransportId(client), key),
     sent |-> <<Send(client, [op |-> "init", key |-> key,
                              value |-> serialize(Get(d, key))])>>]

\* SubscriberState.unlink: the new keyToSubscribedClients and the send
unlink(k2c, client, key) ==
    [k2c |-> unlinkSilently(k2c, client, key),
     sent |-> <<Send(client, [op |-> "closed", key |-> key])>>]

\* sendObjectUpdate sending to the clients of every key, not of the one key
sendObjectUpdateEveryKey(k2c, rootObjectName, message) ==
    [i \in 1..Len(ListOf(k2c, "foo") \o ListOf(k2c, "bar")) |->
        Send((ListOf(k2c, "foo") \o ListOf(k2c, "bar"))[i], message)]

\* sendObjectUpdate: the sends it makes
sendObjectUpdate(k2c, rootObjectName, message) ==
    [i \in 1..Len(ListOf(k2c, rootObjectName)) |->
        Send(ListOf(k2c, rootObjectName)[i], message)]

\* clearSubscribers, the loop over the key's clients: the new
\* clientsToSubscriptions
RECURSIVE clearEach(_, _, _)
clearEach(c2k, clients, key) ==
    IF clients = <<>> THEN c2k
    ELSE LET entry == PropertyKey(Head(clients))
             newSubscriptionList == Without(ListOf(c2k, entry), key)
         IN  clearEach(set(MapWith(c2k, entry), entry, newSubscriptionList),
                       Tail(clients), key)

\* observeOne calling clearSubscribers after every message, finalize or not
observeOneAlwaysClears(st, change, d) ==
    LET rootObjectName == Head(change.path)
        message == MessageFor(change, d)
        k2c == MapWith(st.k2c, rootObjectName)
        sent == st.sent \o sendObjectUpdate(k2c, rootObjectName, message)
    IN  [k2c |-> removeAll(k2c, rootObjectName),
         c2k |-> clearEach(st.c2k, k2c[rootObjectName], rootObjectName),
         sent |-> sent, built |-> Append(st.built, message)]

\* one iteration of changes.forEach in the observer; st carries both maps,
\* the sends made so far and the messages built so far
observeOne(st, change, d) ==
    LET rootObjectName == Head(change.path)
        message == MessageFor(change, d)
        k2c == MapWith(st.k2c, rootObjectName)
        sent == st.sent \o sendObjectUpdate(k2c, rootObjectName, message)
    IN  IF message.op = "finalize"
        THEN [k2c |-> removeAll(k2c, rootObjectName),
              c2k |-> clearEach(st.c2k, k2c[rootObjectName], rootObjectName),
              sent |-> sent, built |-> Append(st.built, message)]
        ELSE [k2c |-> k2c, c2k |-> st.c2k,
              sent |-> sent, built |-> Append(st.built, message)]

RECURSIVE observe(_, _, _)
observe(st, changes, d) ==
    IF changes = <<>> THEN st
    ELSE observe(observeOne(st, Head(changes), d), Tail(changes), d)

\* the disconnect handler: the new keyToSubscribedClients
RECURSIVE disconnectEach(_, _, _)
disconnectEach(k2c, client, keys) ==
    IF keys = <<>> THEN k2c
    ELSE disconnectEach(unlinkSilently(k2c, client, Head(keys)), client, Tail(keys))

(* ------------------------------- state -------------------------------- *)

VARIABLES
    data,                     \* the root object table
    keyToSubscribedClients,   \* MapOfLists: root key -> client handles
    clientsToSubscriptions,   \* MapOfLists: property name -> root keys
    call,                     \* the operation that ran last and its outcome
    changes,                  \* the change batch the observer handled last
    built,                    \* the message built for each change of it
    outbox,                   \* the transport.send calls of the last operation
    life,                     \* per client and key: the last lifecycle event
    ops                       \* how many operations have run

vars == <<data, keyToSubscribedClients, clientsToSubscriptions,
          call, changes, built, outbox, life, ops>>

NoClient == [name |-> "-"]

\* what transport.send does during one operation: it returns normally for
\* every client; or it throws whenever the named client is the addressee;
\* or, at the first send to the named client, it calls unlink for that
\* client and the key of the message, or emits that client's disconnect,
\* before it returns
Reliable == [kind |-> "returns", client |-> NoClient]
Throws(client) == [kind |-> "throws", client |-> client]
Reenters(kind, client) == [kind |-> kind, client |-> client]

CallVia(name, client, key, error, transport) ==
    [name |-> name, client |-> client, key |-> key, error |-> error,
     transport |-> transport]

Call(name, client, key, error) == CallVia(name, client, key, error, Reliable)

Init ==
    /\ data = [k \in Keys |-> Absent]
    /\ keyToSubscribedClients = EmptyMap
    /\ clientsToSubscriptions = EmptyMap
    /\ call = Call("init", NoClient, "-", "")
    /\ changes = <<>>
    /\ built = <<>>
    /\ outbox = <<>>
    /\ life = [c \in Clients |-> [k \in Keys |-> "none"]]
    /\ ops = 0

(* ----------------------------- operations ----------------------------- *)

\* every operation runs to completion before the next one starts
Step == ops < MaxOps /\ ops' = ops + 1

\* link(client, key) with typeof data[key] === 'undefined'
LinkFail(client, key) ==
    /\ Step
    /\ TypeofUndefined(Get(data, key))
    /\ call' = Call("link", client, key, "No such key")
    /\ outbox' = <<>>
    /\ changes' = <<>>
    /\ built' = <<>>
    /\ UNCHANGED <<data, keyToSubscribedClients, clientsToSubscriptions, life>>

\* link(client, key) otherwise
Link(client, key) ==
    /\ Step
    /\ ~TypeofUndefined(Get(data, key))
    /\ LET r == link(keyToSubscribedClients, clientsToSubscriptions, data,
                     client, key)
       IN  /\ keyToSubscribedClients' = r.k2c
           /\ clientsToSubscriptions' = r.c2k
           /\ outbox' = r.sent
    /\ call' = Call("link", client, key, "")
    /\ changes' = <<>>
    /\ built' = <<>>
    /\ life' = [life EXCEPT ![client][key] = "linked"]
    /\ UNCHANGED data

\* unlink(client, key)
Unlink(client, key) ==
    /\ Step
    /\ LET r == unlink(keyToSubscribedClients, client, key)
       IN  /\ keyToSubscribedClients' = r.k2c
           /\ outbox' = r.sent
    /\ call' = Call("unlink", client, key, "")
    /\ changes' = <<>>
    /\ built' = <<>>
    /\ life' = [life EXCEPT ![client][key] = "closed"]
    /\ UNCHANGED <<data, clientsToSubscriptions>>

\* the transport emits 'disconnect' with the client's handle
Disconnect(client) ==
    /\ Step
    /\ clientsToSubscriptions' = MapWith(clientsToSubscriptions, PropertyKey(client))
    /\ keyToSubscribedClients' =
           disconnectEach(keyToSubscribedClients, client,
                          ListOf(clientsToSubscriptions, PropertyKey(client)))
    /\ outbox' = <<>>
    /\ call' = Call("disconnect", client, "-", "")
    /\ changes' = <<>>
    /\ built' = <<>>
    /\ life' = [life EXCEPT ![client] =
                   [k \in Keys |-> IF life[client][k] = "linked" THEN "gone"
                                   ELSE life[client][k]]]
    /\ UNCHANGED data

\* Mutate with the observer walking the batch from its last record to its
\* first
MutateLastRecordFirst(name, key, newValue, batch) ==
    LET d == [data EXCEPT ![key] = newValue]
        st == observe([k2c |-> keyToSubscribedClients,
                       c2k |-> clientsToSubscriptions,
                       sent |-> <<>>, built |-> <<>>],
                      [i \in 1..Len(batch) |-> batch[Len(batch) + 1 - i]], d)
        finalized == \E i \in 1..Len(batch) : IsRootDeletion(batch[i])
    IN  /\ Step
        /\ data' = d
        /\ keyToSubscribedClients' = st.k2c
        /\ clientsToSubscriptions' = st.c2k
        /\ outbox' = st.sent
        /\ built' = st.built
        /\ changes' = batch
        /\ call' = Call(name, NoClient, key, "")
        /\ life' = [c \in Clients |-> [k \in Keys |->
                       IF k = key /\ finalized /\ life[c][k] = "linked"
                       THEN "finalized" ELSE life[c][k]]]

\* a mutation of the table: object-observer applies it and then hands the
\* batch of its change records to the observer, which runs to completion
Mutate(name, key, newValue, batch) ==
    LET d == [data EXCEPT ![key] = newValue]
        st == observe([k2c |-> keyToSubscribedClients,
                       c2k |-> clientsToSubscriptions,
                       sent |-> <<>>, built |-> <<>>], batch, d)
        finalized == \E i \in 1..Len(batch) : IsRootDeletion(batch[i])
    IN  /\ Step
        /\ data' = d
        /\ keyToSubscribedClients' = st.k2c
        /\ clientsToSubscriptions' = st.c2k
        /\ outbox' = st.sent
        /\ built' = st.built
        /\ changes' = batch
        /\ call' = Call(name, NoClient, key, "")
        /\ life' = [c \in Clients |-> [k \in Keys |->
                       IF k = key /\ finalized /\ life[c][k] = "linked"
                       THEN "finalized" ELSE life[c][k]]]

\* data[key] = v: an insert record for a key the table does not have, an
\* update record otherwise
SetRoot(key, v) ==
    Mutate("set", key, v,
           <<Change(IF data[key] = Absent THEN "insert" ELSE "update",
                    <<key>>, v)>>)

\* delete data[key]
DeleteRoot(key) ==
    Mutate("delete", key, Absent,
           <<Change("delete", <<key>>, Undefined)>>)

\* data[key].splice(start, deleteCount, ...items): one update per replaced
\* index, then one insert per extra item or one delete per extra removal
SpliceChanges(key, start, deleteCount, items) ==
    LET n == Len(items)
        replaced == IF n < deleteCount THEN n ELSE deleteCount
        more == IF n > deleteCount THEN n - deleteCount ELSE deleteCount - n
    IN  [i \in 1..(replaced + more) |->
            IF i <= replaced
            THEN Change("update", <<key, start + i - 1>>, Str(items[i]))
            ELSE IF n > deleteCount
            THEN Change("insert", <<key, start + i - 1>>, Str(items[i]))
            ELSE Change("delete", <<key, start + i - 1>>, Undefined)]

SpliceResult(old, start, deleteCount, items) ==
    SubSeq(old, 1, start) \o items \o SubSeq(old, start + deleteCount + 1, Len(old))

ArraySplice(key, start, deleteCount, items) ==
    /\ data[key].kind = "array"
    /\ start \in 0..Len(data[key].elems)
    /\ deleteCount \in 0..(Len(data[key].elems) - start)
    /\ Len(items) + deleteCount > 0
    /\ Len(data[key].elems) - deleteCount + Len(items) <= MaxLen
    /\ Mutate("splice", key,
              Arr(SpliceResult(data[key].elems, start, deleteCount, items)),
              SpliceChanges(key, start, deleteCount, items))

Rank(s) == IF s = "a" THEN 1 ELSE 2

\* data[key].sort()
ArraySort(key) ==
    /\ data[key].kind = "array"
    /\ Mutate("sort", key,
              Arr(SortSeq(data[key].elems, LAMBDA x, y : Rank(x) < Rank(y))),
              <<Change("shuffle", <<key>>, Undefined)>>)

Reversed(s) == [i \in 1..Len(s) |-> s[Len(s) + 1 - i]]

\* data[key].reverse()
ArrayReverse(key) ==
    /\ data[key].kind = "array"
    /\ Mutate("reverse", key, Arr(Reversed(data[key].elems)),
              <<Change("reverse", <<key>>, Undefined)>>)

Next ==
    \/ \E c \in Clients, k \in Keys : LinkFail(c, k)
    \/ \E c \in Clients, k \in Keys : Link(c, k)
    \/ \E c \in Clients, k \in Keys : Unlink(c, k)
    \/ \E c \in Clients : Disconnect(c)
    \/ \E k \in Keys, v \in RootValues : SetRoot(k, v)
    \/ \E k \in Keys : DeleteRoot(k)
    \/ \E k \in Keys, start \in SpliceStarts, deleteCount \in 0..MaxLen,
          items \in SpliceItems :
            ArraySplice(k, start, deleteCount, items)
    \/ \E k \in Keys : ArraySort(k)
    \/ \E k \in Keys : ArrayReverse(k)

Spec == Init /\ [][Next]_vars

(* ---------------------- operations, any transport --------------------- *)

Behaviours ==
    {Throws(c) : c \in Clients}
        \cup {Reenters(kind, c) : kind \in {"unlink", "disconnect"}, c \in Clients}

\* sendObjectUpdate over the list it read, with transport.send behaving as b:
\* a throw leaves the forEach and everything above it; unlinkSilently and
\* the disconnect handler put new lists into the map, the list being
\* iterated stays as it was. st carries both maps, the sends made and the
\* messages built so far, whether a send has thrown and whether the
\* transport has re-entered the engine
RECURSIVE sendObjectUpdateVia(_, _, _, _, _)
sendObjectUpdateVia(st, clients, rootObjectName, message, b) ==
    IF clients = <<>> \/ st.thrown THEN st
    ELSE LET client == Head(clients)
             delivered == Append(st.sent, Send(client, message))
             rest == Tail(clients)
         IN  IF b.kind = "throws" /\ b.client = client
             THEN [st EXCEPT !.thrown = TRUE]
             ELSE IF b.kind = "unlink" /\ b.client = client /\ ~st.fired
             THEN sendObjectUpdateVia(
                      [st EXCEPT
                          !.k2c = unlink(st.k2c, client, rootObjectName).k2c,
                          !.sent = delivered
                                     \o unlink(st.k2c, client, rootObjectName).sent,
                          !.fired = TRUE],
                      rest, rootObjectName, message, b)
             ELSE IF b.kind = "disconnect" /\ b.client = client /\ ~st.fired
             THEN sendObjectUpdateVia(
                      [st EXCEPT
                          !.c2k = MapWith(st.c2k, PropertyKey(client)),
                          !.k2c = disconnectEach(st.k2c, client,
                                      ListOf(st.c2k, PropertyKey(client))),
                          !.sent = delivered,
                          !.fired = TRUE],
                      rest, rootObjectName, message, b)
             ELSE sendObjectUpdateVia([st EXCEPT !.sent = delivered],
                                      rest, rootObjectName, message, b)

\* one iteration of changes.forEach with transport.send behaving as b
observeOneVia(st, change, d, b) ==
    IF st.thrown THEN st
    ELSE LET rootObjectName == Head(change.path)
             message == MessageFor(change, d)
             k2c == MapWith(st.k2c, rootObjectName)
             s == sendObjectUpdateVia(
                      [st EXCEPT !.k2c = k2c, !.built = Append(st.built, message)],
                      k2c[rootObjectName], rootObjectName, message, b)
         IN  IF s.thrown \/ message.op # "finalize" THEN s
             ELSE [s EXCEPT
                      !.k2c = removeAll(s.k2c, rootObjectName),
                      !.c2k = clearEach(s.c2k, ListOf(s.k2c, rootObjectName),
                                        rootObjectName)]

RECURSIVE observeVia(_, _, _, _)
observeVia(st, batch, d, b) ==
    IF batch = <<>> THEN st
    ELSE observeVia(observeOneVia(st, Head(batch), d, b), Tail(batch), d, b)

\* link(client, key) of a defined key when the send of the init throws: both
\* pushes are done, the exception reaches the caller
LinkThrows(client, key) ==
    /\ Step
    /\ ~TypeofUndefined(Get(data, key))
    /\ LET r == link(keyToSubscribedClients, clientsToSubscriptions, data,
                     client, key)
       IN  /\ keyToSubscribedClients' = r.k2c
           /\ clientsToSubscriptions' = r.c2k
    /\ outbox' = <<>>
    /\ call' = CallVia("link", client, key, "send threw", Throws(client))
    /\ changes' = <<>>
    /\ built' = <<>>
    /\ life' = [life EXCEPT ![client][key] = "linked"]
    /\ UNCHANGED data

\* unlink(client, key) when the send of the closed message throws
UnlinkThrows(client, key) ==
    /\ Step
    /\ keyToSubscribedClients' = unlink(keyToSubscribedClients, client, key).k2c
    /\ outbox' = <<>>
    /\ call' = CallVia("unlink", client, key, "send threw", Throws(client))
    /\ changes' = <<>>
    /\ built' = <<>>
    /\ life' = [life EXCEPT ![client][key] = "closed"]
    /\ UNCHANGED <<data, clientsToSubscriptions>>

\* a mutation of the table during which transport.send behaves as b for a
\* subscriber of the key; this source does not decide whether the library
\* calling the observer lets an exception reach the mutating statement, so
\* both outcomes are taken (surfaced)
MutateVia(name, key, newValue, batch, b, surfaced) ==
    LET d == [data EXCEPT ![key] = newValue]
        st == observeVia([k2c |-> keyToSubscribedClients,
                          c2k |-> clientsToSubscriptions,
                          sent |-> <<>>, built |-> <<>>,
                          thrown |-> FALSE, fired |-> FALSE], batch, d, b)
        finalized == \E i \in 1..Len(batch) : IsRootDeletion(batch[i])
    IN  /\ Step
        /\ Count(ListOf(keyToSubscribedClients, key), b.client) > 0
        /\ surfaced => b.kind = "throws"
        /\ data' = d
        /\ keyToSubscribedClients' = st.k2c
        /\ clientsToSubscriptions' = st.c2k
        /\ outbox' = st.sent
        /\ built' = st.built
        /\ changes' = batch
        /\ call' = CallVia(name, NoClient, key,
                           IF surfaced THEN "send threw" ELSE "", b)
        /\ life' = [c \in Clients |-> [k \in Keys |->
                       IF k = key /\ finalized /\ life[c][k] = "linked"
                       THEN "finalized"
                       ELSE IF c = b.client /\ k = key /\ b.kind = "unlink"
                       THEN "closed"
                       ELSE IF c = b.client /\ b.kind = "disconnect"
                               /\ life[c][k] = "linked"
                       THEN "gone"
                       ELSE life[c][k]]]

SetRootVia(key, v, b, surfaced) ==
    MutateVia("set", key, v,
              <<Change(IF data[key] = Absent THEN "insert" ELSE "update",
                       <<key>>, v)>>, b, surfaced)

DeleteRootVia(key, b, surfaced) ==
    MutateVia("delete", key, Absent,
              <<Change("delete", <<key>>, Undefined)>>, b, surfaced)

ArraySpliceVia(key, start, deleteCount, items, b, surfaced) ==
    /\ data[key].kind = "array"
    /\ start \in 0..Len(data[key].elems)
    /\ deleteCount \in 0..(Len(data[key].elems) - start)
    /\ Len(items) + deleteCount > 0
    /\ Len(data[key].elems) - deleteCount + Len(items) <= MaxLen
    /\ MutateVia("splice", key,
                 Arr(SpliceResult(data[key].elems, start, deleteCount, items)),
                 SpliceChanges(key, start, deleteCount, items), b, surfaced)

NextAnyTransport ==
    \/ Next
    \/ \E c \in Clients, k \in Keys : LinkThrows(c, k)
    \/ \E c \in Clients, k \in Keys : UnlinkThrows(c, k)
    \/ \E k \in Keys, v \in RootValues, b \in Behaviours, surfaced \in BOOLEAN :
          SetRootVia(k, v, b, surfaced)
    \/ \E k \in Keys, b \in Behaviours, surfaced \in BOOLEAN :
          DeleteRootVia(k, b, surfaced)
    \/ \E k \in Keys, start \in SpliceStarts, deleteCount \in 0..MaxLen,
          items \in SpliceItems, b \in Behaviours, surfaced \in BOOLEAN :
            ArraySpliceVia(k, start, deleteCount, items, b, surfaced)

SpecAnyTransport == Init /\ [][NextAnyTransport]_vars

(* ------------------ the observer on any change record ----------------- *)

\* a value typeof calls 'function'
Fn == [kind |-> "function", elems |-> <<>>]

RecordTypes == {"insert", "update", "delete", "shuffle", "reverse"}
RecordPaths ==
    {<<k>> : k \in Keys} \cup {<<k, i>> : k \in Keys, i \in 0..(MaxLen - 1)}
RecordValues == {Undefined, Fn, Str("a"), Arr(<<"b", "a">>)}

\* the change records the observer may be handed, whatever their fields hold
ChangeRecords ==
    {Change(type, path, value) :
        type \in RecordTypes, path \in RecordPaths, value \in RecordValues}

Tables == [Keys -> {Absent, Undefined, Fn, Arr(<<"b", "a">>)}]

InitAnyRecord ==
    /\ data \in Tables
    /\ keyToSubscribedClients = EmptyMap
    /\ clientsToSubscriptions = EmptyMap
    /\ call = Call("init", NoClient, "-", "")
    /\ changes = <<>>
    /\ built = <<>>
    /\ outbox = <<>>
    /\ life = [c \in Clients |-> [k \in Keys |-> "none"]]
    /\ ops = 0

\* the observer builds the message of one record; with no subscriber it
\* sends nothing
Translate(change) ==
    /\ changes' = <<change>>
    /\ built' = <<MessageFor(change, data)>>
    /\ call' = Call("translate", NoClient, Head(change.path), "")
    /\ UNCHANGED <<data, keyToSubscribedClients, clientsToSubscriptions,
                   outbox, life, ops>>

NextAnyRecord == \E change \in ChangeRecords : Translate(change)

SpecAnyRecord == InitAnyRecord /\ [][NextAnyRecord]_vars

(* ------------------------- notions of the claims ---------------------- *)

Mutations == {"set", "delete", "splice", "sort", "reverse"}

\* the messages about key k that the sends of box hand to client c, in order
MessagesTo(box, c, k) ==
    LET mine == SelectSeq(box, LAMBDA s : s.client = c /\ s.message.key = k)
    IN  [i \in 1..Len(mine) |-> mine[i].message]

\* the messages built for the changes of a batch whose root key is k
MessagesAbout(msgs, k) == SelectSeq(msgs, LAMBDA m : m.key = k)

Subscribers(key) == {ListOf(keyToSubscribedClients, key)[i] :
                        i \in 1..Len(ListOf(keyToSubscribedClients, key))}

SubscriptionsOf(client) ==
    {ListOf(clientsToSubscriptions, TransportId(client))[i] :
        i \in 1..Len(ListOf(clientsToSubscriptions, TransportId(client)))}

HasNoDefinedValue(key) == data[key] \in {Absent, Undefined}

Deltas == {"insert", "update", "delete", "finalize"}

(* ------------------------------- claims ------------------------------- *)

\* C1: a client registered for key K when a mutation touching K happens
\* receives exactly one message per change record whose root key is K, in
\* the order of the records; this holds however often link was called for
\* the client and the key.
C1_OneMessagePerRecord ==
    [][\A c \in Clients, k \in Keys :
          (call'.name \in Mutations /\ life[c][k] = "linked")
              => MessagesTo(outbox', c, k) = MessagesAbout(built', k)]_vars

\* C2: when the root value of K is deleted, every client registered for K
\* receives exactly one finalize for K, and no mutation sends it a message
\* for K afterwards until it links to K again.
C2_FinalizeOnceThenSilence ==
    [][\A c \in Clients, k \in Keys :
          /\ (call'.name = "delete" /\ call'.key = k /\ life[c][k] = "linked")
                 => MessagesTo(outbox', c, k) = <<[op |-> "finalize", key |-> k]>>
          /\ (call'.name \in Mutations /\ life[c][k] = "finalized")
                 => MessagesTo(outbox', c, k) = <<>>]_vars

\* C3: link(c, K) while K has no defined value fails with the NoSuchKey
\* error, sends nothing and leaves both registry maps as they were.
C3_LinkUndefinedKeyFails ==
    [][(call'.name = "link" /\ HasNoDefinedValue(call'.key))
          => /\ call'.error = "No such key"
             /\ outbox' = <<>>
             /\ keyToSubscribedClients' = keyToSubscribedClients
             /\ clientsToSubscriptions' = clientsToSubscriptions]_vars

\* a link of a client to a key holding undefined (the key exists) has failed
C3_Witness ==
    /\ call.name = "link"
    /\ call.error = "No such key"
    /\ data[call.key] = Undefined
    /\ \E k \in Keys : Subscribers(k) # {}

\* C4: link(c, K) while K is defined sends exactly one message, the init for
\* K carrying K's current value, to c only; and a client is sent a delta for
\* K only when an init for K was sent to it since it last left K by unlink
\* or finalize.
C4_InitFirst ==
    [][/\ (call'.name = "link" /\ ~HasNoDefinedValue(call'.key))
             => outbox' = <<Send(call'.client,
                                 [op |-> "init", key |-> call'.key,
                                  value |-> serialize(data[call'.key])])>>
       /\ \A c \in Clients, k \in Keys :
             (\E i \in 1..Len(outbox') :
                  /\ outbox'[i].client = c
                  /\ outbox'[i].message.key = k
                  /\ outbox'[i].message.op \in Deltas)
                 => life[c][k] \in {"linked", "gone"}]_vars

\* a second client has linked to a key that already had a subscriber, and
\* the one send of the call is the init to the new client
C4_Witness ==
    /\ call.name = "link"
    /\ call.error = ""
    /\ Cardinality(Subscribers(call.key)) = 2
    /\ Len(outbox) = 1
    /\ outbox[1].message.op = "init"
    /\ outbox[1].message.value.sejr = "array"

\* C5: unlink(c, K) sends c exactly one closed message for K, and a mutation
\* of K after it sends c nothing for K until c links to K again.
C5_UnlinkClosesAndSilences ==
    [][/\ call'.name = "unlink"
             => outbox' = <<Send(call'.client,
                                 [op |-> "closed", key |-> call'.key])>>
       /\ \A c \in Clients, k \in Keys :
             (call'.name \in Mutations /\ life[c][k] = "closed")
                 => MessagesTo(outbox', c, k) = <<>>]_vars

\* a key was mutated after a client that had linked to it unlinked; the
\* other subscriber of the key was sent the message and that client was not
C5_Witness ==
    \E c \in Clients :
        /\ call.name \in Mutations
        /\ life[c][call.key] = "closed"
        /\ call.key \in SubscriptionsOf(c)
        /\ outbox # <<>>
        /\ MessagesTo(outbox, c, call.key) = <<>>

\* C6: the disconnect of client c removes every registration of c without
\* a send, and no later mutation sends anything to c.
C6_DisconnectRemoves ==
    [][/\ call'.name = "disconnect"
             => /\ outbox' = <<>>
                /\ \A k \in Keys : call'.client \notin Subscribers(k)'
       /\ \A c \in Clients :
             (/\ call'.name \in Mutations
              /\ \E k \in Keys : life[c][k] = "gone"
              /\ \A k \in Keys : life[c][k] # "linked")
                 => \A i \in 1..Len(outbox') : outbox'[i].client # c]_vars

\* C7: client c is listed under key K in the key-to-clients map exactly when
\* K is listed under c in the client-to-keys map.
C7_MapsConsistent ==
    \A c \in Clients, k \in Keys :
        c \in Subscribers(k) <=> k \in SubscriptionsOf(c)

\* C8: once the finalize of K has been processed, neither map holds a
\* registration for K.
C8_FinalizeClearsBothMaps ==
    call.name = "delete"
        => /\ Subscribers(call.key) = {}
           /\ \A x \in DOMAIN clientsToSubscriptions :
                 Count(clientsToSubscriptions[x], call.key) = 0

\* C9: a client that links to K again after the finalize of K ends with the
\* registration a first link gives (listed once under K and K listed once
\* under it) and is sent the one init.
C9_RelinkLikeFirstLink ==
    [][\A c \in Clients, k \in Keys :
          (call'.name = "link" /\ call'.error = "" /\ call'.client = c
           /\ call'.key = k /\ life[c][k] \in {"none", "finalized"})
              => /\ Count(ListOf(keyToSubscribedClients', k), c) = 1
                 /\ Count(ListOf(clientsToSubscriptions', TransportId(c)), k) = 1
                 /\ Len(outbox') = 1]_vars

\* C10: the message built for an insert, update or delete record that is not
\* a root deletion has the record's type as op, path[0] as key and path[1:]
\* as path.
C10_DeltaShape ==
    \A i \in 1..Len(changes) :
        (changes[i].type \in {"insert", "update", "delete"}
         /\ ~(changes[i].type = "delete" /\ Len(changes[i].path) = 1))
            => /\ built[i].op = changes[i].type
               /\ built[i].key = changes[i].path[1]
               /\ built[i].path = SubSeq(changes[i].path, 2, Len(changes[i].path))

\* a batch of two records was handled: an update and a delete inside an
\* array, each sent to a subscriber with the index as its path
C10_Witness ==
    /\ Len(changes) = 2
    /\ changes[1].type = "update"
    /\ changes[2].type = "delete"
    /\ built[2].path = <<1>>
    /\ Len(outbox) = 2

\* C11: for a shuffle or reverse record exactly one message is built: op
\* update, key path[0], path path[1:], and as value the encoding of what the
\* table holds at the record's path when the record is handled; the
\* subscribers are sent that one message and no message per index.
C11_ShuffleSendsCurrentValue ==
    \A i \in 1..Len(changes) :
        changes[i].type \in {"shuffle", "reverse"}
            => /\ Len(built) = Len(changes)
               /\ Len(changes[i].path) = 1
               /\ built[i] = [op |-> "update", key |-> changes[i].path[1],
                              path |-> <<>>,
                              value |-> [sejr |-> data[changes[i].path[1]].kind,
                                         elems |-> data[changes[i].path[1]].elems]]
               /\ \A j \in 1..Len(outbox) : outbox[j].message = built[i]

\* the array <<"b", "a">> was sorted and its subscriber was sent the one
\* update carrying the sorted array
C11_Witness ==
    /\ call.name = "sort"
    /\ changes = <<Change("shuffle", <<call.key>>, Undefined)>>
    /\ Len(outbox) = 1
    /\ outbox[1].message.op = "update"
    /\ outbox[1].message.path = <<>>
    /\ outbox[1].message.value = [sejr |-> "array", elems |-> <<"a", "b">>]

\* C12: a change record yields a finalize message exactly when its type is
\* delete and its path has length 1; the finalize message has the fields op
\* and key only; every other record yields the message of the change
\* translator, which is never a finalize.
C12_FinalizeIffRootDelete ==
    /\ Len(built) = Len(changes)
    /\ \A i \in 1..Len(changes) :
          IF changes[i].type = "delete" /\ Len(changes[i].path) = 1
          THEN built[i] = [op |-> "finalize", key |-> changes[i].path[1]]
          ELSE /\ built[i] = buildMessage(changes[i], data)
               /\ built[i].op # "finalize"
               /\ "path" \in DOMAIN built[i]

\* a splice removed the two elements of an array: two delete records with
\* paths of length 2, and the subscriber was sent two delete messages
C12_Witness ==
    /\ Len(changes) = 2
    /\ \A i \in 1..2 : changes[i].type = "delete" /\ Len(changes[i].path) = 2
    /\ Len(outbox) = 2
    /\ \A i \in 1..2 : outbox[i].message.op = "delete"

\* C13: when transport.send throws for one client during a mutation, the
\* mutation does not fail, every record of the batch still has its message
\* built and sent to each other subscriber of the key, and a root deletion
\* still leaves the key without subscribers.
C13_SendFailureContained ==
    [][\A k \in Keys :
          (call'.name \in Mutations /\ call'.key = k
           /\ call'.transport.kind = "throws")
              => /\ call'.error = ""
                 /\ Len(built') = Len(changes')
                 /\ \A c \in Subscribers(k) \ {call'.transport.client} :
                       \A i \in 1..Len(changes') :
                           \E j \in 1..Len(outbox') :
                               outbox'[j] = Send(c, MessageFor(changes'[i], data'))
                 /\ call'.name = "delete" => Subscribers(k)' = {}]_vars

\* C14: no operation applies in part. A link either changes neither map and
\* sends nothing, or registers the client in both maps and sends it the
\* init; an unlink removes the client from the key's list and sends it the
\* closed message; a mutation builds the message of every record of its
\* batch and sends each to every subscriber of the key.
C14_NoPartialApplication ==
    [][\A c \in Clients, k \in Keys :
          /\ (call'.name = "link" /\ call'.client = c /\ call'.key = k)
                => \/ /\ keyToSubscribedClients' = keyToSubscribedClients
                      /\ clientsToSubscriptions' = clientsToSubscriptions
                      /\ outbox' = <<>>
                   \/ /\ c \in Subscribers(k)'
                      /\ k \in SubscriptionsOf(c)'
                      /\ outbox' = <<Send(c, [op |-> "init", key |-> k,
                                              value |-> serialize(data[k])])>>
          /\ (call'.name = "unlink" /\ call'.client = c /\ call'.key = k)
                => /\ c \notin Subscribers(k)'
                   /\ outbox' = <<Send(c, [op |-> "closed", key |-> k])>>
          /\ (call'.name \in Mutations /\ call'.key = k /\ c \in Subscribers(k))
                => /\ Len(built') = Len(changes')
                   /\ \A i \in 1..Len(built') :
                         \E j \in 1..Len(outbox') :
                             outbox'[j] = Send(c, built'[i])]_vars

C16_OnlyRegisteredReceive ==
    [][\A k \in Keys :
          (call'.name \in Mutations /\ call'.key = k)
              => /\ \A j \in 1..Len(outbox') :
                       /\ outbox'[j].message.key = k
                       /\ outbox'[j].client \in Subscribers(k)
                 /\ \A c \in Clients :
                       life[c][k] \in {"none", "closed", "finalized"}
                           => \A j \in 1..Len(outbox') : outbox'[j].client # c
                 /\ Subscribers(k) = {}
                       => (outbox' = <<>> /\ call'.error = "")]_vars

\* a key with one subscriber was mutated while the other client was linked
\* to the other key only: the subscriber was sent the message, the other
\* client nothing
C16_Witness ==
    \E c1, c2 \in Clients, k2 \in Keys :
        /\ call.name \in Mutations
        /\ k2 # call.key
        /\ Subscribers(call.key) = {c1}
        /\ c2 # c1
        /\ c2 \in Subscribers(k2)
        /\ life[c2][call.key] = "none"
        /\ outbox # <<>>
        /\ \A j \in 1..Len(outbox) : outbox[j].client = c1

\* C17: in every reachable state no entry of either registry map holds an
\* empty list.
C17_NoEmptyEntries ==
    /\ \A x \in DOMAIN keyToSubscribedClients : keyToSubscribedClients[x] # <<>>
    /\ \A x \in DOMAIN clientsToSubscriptions : clientsToSubscriptions[x] # <<>>

\* C18: a batch is processed over the subscribers the key had when the batch
\* began: a client whose unlink or disconnect happens inside a send of the
\* batch is still sent the message of every record of the batch, and an
\* unlink has taken effect once the batch is done.
C18_BatchKeepsItsSubscribers ==
    [][\A c \in Clients, k \in Keys :
          (/\ call'.name \in Mutations
           /\ call'.key = k
           /\ call'.transport.kind \in {"unlink", "disconnect"}
           /\ call'.transport.client = c)
              => /\ Len(built') = Len(changes')
                 /\ \A i \in 1..Len(built') :
                       Send(c, built'[i]) \in {outbox'[j] : j \in 1..Len(outbox')}
                 /\ call'.transport.kind = "unlink" => c \notin Subscribers(k)']_vars

\* C19: the sends of a mutation follow the order of its change records: a
\* send of the message of an earlier record is never made after a send of
\* the message of a later record, whoever the addressees are, and every
\* send carries the message of a record of that mutation's batch.
C19_SendsInRecordOrder ==
    [][call'.name \in Mutations
          => /\ \A p \in 1..Len(outbox') :
                   \E i \in 1..Len(changes') :
                       outbox'[p].message = MessageFor(changes'[i], data')
             /\ \A p, q \in 1..Len(outbox'), i, j \in 1..Len(changes') :
                   (/\ p < q
                    /\ outbox'[p].message = MessageFor(changes'[i], data')
                    /\ outbox'[q].message = MessageFor(changes'[j], data'))
                       => i <= j]_vars

\* a batch of two records was sent to two subscribers: both sends of the
\* first record's message, then both sends of the second's
C19_Witness ==
    /\ Len(changes) = 2
    /\ Len(outbox) = 4
    /\ outbox[1].client # outbox[2].client
    /\ outbox[1].message = built[1]
    /\ outbox[2].message = built[1]
    /\ outbox[3].message = built[2]
    /\ outbox[4].message = built[2]
    /\ built[1] # built[2]

C22_UndefinedIsNotFinalize ==
    [][\A k \in Keys :
          /\ (call'.name = "set" /\ call'.key = k
              /\ data[k] # Absent /\ data'[k] = Undefined)
                => /\ Len(changes') = 1
                   /\ changes'[1].type = "update"
                   /\ changes'[1].path = <<k>>
                   /\ built' = <<[op |-> "update", key |-> k, path |-> <<>>]>>
                   /\ \A c \in Subscribers(k) :
                         /\ MessagesTo(outbox', c, k) # <<>>
                         /\ \A i \in 1..Len(MessagesTo(outbox', c, k)) :
                               MessagesTo(outbox', c, k)[i] = built'[1]
                   /\ ListOf(keyToSubscribedClients', k)
                          = ListOf(keyToSubscribedClients, k)
                   /\ clientsToSubscriptions' = clientsToSubscriptions
          /\ (call'.name = "link" /\ call'.key = k /\ data[k] = Undefined)
                => /\ call'.error = "No such key"
                   /\ outbox' = <<>>
                   /\ keyToSubscribedClients' = keyToSubscribedClients
                   /\ clientsToSubscriptions' = clientsToSubscriptions]_vars

\* a key holding an array was assigned undefined while a client was linked
\* to it: the client was sent the update without value and is still listed
C22_Witness ==
    /\ call.name = "set"
    /\ data[call.key] = Undefined
    /\ changes # <<>>
    /\ changes[1].type = "update"
    /\ Subscribers(call.key) # {}
    /\ outbox # <<>>
    /\ \A j \in 1..Len(outbox) :
          outbox[j].message = [op |-> "update", key |-> call.key, path |-> <<>>]

\* C23: after one unlink(c, K) the subscriber list of K holds no occurrence
\* of c, however often c was linked to K before, and the mutations of K
\* that follow send c nothing until c links to K again.
C23_OneUnlinkRemovesAll ==
    [][\A c \in Clients, k \in Keys :
          /\ (call'.name = "unlink" /\ call'.client = c /\ call'.key = k)
                => Count(ListOf(keyToSubscribedClients', k), c) = 0
          /\ (call'.name \in Mutations /\ call'.key = k
              /\ life[c][k] = "closed")
                => \A j \in 1..Len(outbox') : outbox'[j].client # c]_vars

\* a client linked twice to a key and unlinked once; the mutation of the
\* key that followed sent nothing
C23_Witness ==
    \E c \in Clients :
        /\ call.name \in Mutations
        /\ changes # <<>>
        /\ life[c][call.key] = "closed"
        /\ Count(ListOf(clientsToSubscriptions, TransportId(c)), call.key) = 2
        /\ Count(ListOf(keyToSubscribedClients, call.key), c) = 0
        /\ outbox = <<>>

\* C24: unlink(c, K) leaves the occurrences of every other client in K's
\* list, the lists of the other keys and what the client-to-keys map holds
\* about the other keys as they were; the root deletion of K leaves the
\* lists of the other keys and what the client-to-keys map holds about them
\* as they were; and a mutation of a key sends the message of each of its
\* records to every client listed for that key.
C24_RemovalLeavesOthers ==
    [][\A k \in Keys :
          /\ (call'.name \in {"unlink", "delete"} /\ call'.key = k)
                => /\ \A k2 \in Keys \ {k} :
                         ListOf(keyToSubscribedClients', k2)
                             = ListOf(keyToSubscribedClients, k2)
                   /\ \A x \in DOMAIN clientsToSubscriptions
                                   \cup DOMAIN clientsToSubscriptions' :
                         Without(ListOf(clientsToSubscriptions', x), k)
                             = Without(ListOf(clientsToSubscriptions, x), k)
          /\ (call'.name = "unlink" /\ call'.key = k)
                => Without(ListOf(keyToSubscribedClients', k), call'.client)
                       = Without(ListOf(keyToSubscribedClients, k), call'.client)
          /\ (call'.name \in Mutations /\ call'.key = k)
                => \A c \in Subscribers(k) :
                       \A i \in 1..Len(built') :
                           Send(c, built'[i])
                               \in {outbox'[j] : j \in 1..Len(outbox')}]_vars

\* a key was deleted and its subscriber sent the finalize while the other
\* client was linked to the other key, and that client is still listed there
C24_Witness ==
    \E c1, c2 \in Clients, k2 \in Keys :
        /\ call.name = "delete"
        /\ k2 # call.key
        /\ c1 # c2
        /\ outbox = <<Send(c1, [op |-> "finalize", key |-> call.key])>>
        /\ Subscribers(call.key) = {}
        /\ Subscribers(k2) = {c2}
        /\ k2 \in SubscriptionsOf(c2)

====
